---- MODULE Spec2Model ----
(***************************************************************************)
(* Model of src/solidarity-media-frontend/src/App.jsx, the component       *)
(* SolidarityMediaHub: its eight state holders, the two asynchronous       *)
(* handlers fetchMetadata and downloadMedia (one action per suspension     *)
(* point), the controls that trigger them and the CSV export.              *)
(*                                                                         *)
(* A JavaScript string is a sequence of one-character strings, so that     *)
(* trim, the regular-expression replace and CSV parsing are computed       *)
(* character by character.  A character other than space, double-quote,    *)
(* comma and newline stands for any ordinary character.                    *)
(***************************************************************************)
EXTENDS Integers, Sequences, FiniteSets, TLC

\* ------------------------------------------------------------------ bounds
\* Requests of one kind that may be outstanding before the model stops
\* issuing more.
MaxInFlight == 2
\* Chunks the response body of one download delivers, under SpecDownload.
MaxChunks == 3
\* Largest Content-Length a download response declares, under SpecDownload.
MaxTotal == 4

\* ------------------------------------------------------- values and inputs
SP == " "
DQ == "\""
COMMA == ","
NL == "\n"

\* null / undefined of the state holders metadata (line 6).
Null == [isNull |-> TRUE]

\* What a user types into the media URL input.
UrlInputs == { <<>>, <<SP>>, <<SP, "u">>, <<"v">> }
\* What a user types into the campaign name input.
NameInputs == { <<>>, <<"n", SP>> }

\* Response objects of POST /api/metadata.  An absent string field is the
\* empty sequence and an absent number is 0: the code reads every optional
\* field through `x || default`, which treats undefined, '' and 0 alike.
MetaResponses ==
    { [title |-> <<"t">>, uploader |-> <<"w">>, platform |-> <<"y">>,
       url |-> <<"u">>, extension |-> <<"x">>,
       viewCount |-> 5, likeCount |-> 2, duration |-> 7],
      [title |-> <<>>, uploader |-> <<>>, platform |-> <<>>,
       url |-> <<"v">>, extension |-> <<>>,
       viewCount |-> 0, likeCount |-> 0, duration |-> 0] }

\* data.error of a non-success response: "" when the body carries none.
ServerErrors == { "", "blocked" }
\* err.message of a rejected fetch() or reader.read().
NetworkErrorMessage == "Failed to fetch"
ReadErrorMessage == "network error"

\* The values reader.read() delivers: non-empty byte sequences.
ChunkValues == { <<0>>, <<1>>, <<0, 1>> }
\* The content-length header: NoHeader when the server sends none.
NoHeader == -1
ContentLengths == {NoHeader} \cup (0..MaxTotal)
\* The one body Spec lets a download deliver (SpecDownload varies it).
UiChunkValues == { <<0>> }
UiContentLengths == { 1 }

\* ---------------------------------------------------------- pure functions
IsSpace(c) == c = SP \/ c = NL

RECURSIVE TrimStart(_)
TrimStart(s) ==
    IF s # <<>> /\ IsSpace(Head(s)) THEN TrimStart(Tail(s)) ELSE s

RECURSIVE TrimEnd(_)
TrimEnd(s) ==
    IF s # <<>> /\ IsSpace(s[Len(s)]) THEN TrimEnd(SubSeq(s, 1, Len(s) - 1)) ELSE s

\* String.prototype.trim
Trim(s) == TrimEnd(TrimStart(s))

\* parseInt(contentLength, 10): NaN for a missing header.  NaN is modelled
\* as 0, the code only ever tests `if (total)` and both are falsy.
ParseTotal(h) == IF h = NoHeader THEN 0 ELSE h

\* Math.round((loaded / total) * 100) for loaded >= 0, total > 0.
ProgressOf(loaded, total) == (200 * loaded + total) \div (2 * total)

\* A push that puts the chunk first instead of last.
PushChunkFront(chunks, value) == <<value>> \o chunks

\* chunks.push(value)
PushChunk(chunks, value) == Append(chunks, value)

\* new Blob(chunks): the parts in array order.
RECURSIVE Blob(_)
Blob(chunks) ==
    IF chunks = <<>> THEN <<>> ELSE Head(chunks) \o Blob(Tail(chunks))

\* s.slice without element i
RemoveAt(s, i) == SubSeq(s, 1, i - 1) \o SubSeq(s, i + 1, Len(s))

\* ------------------------------------------------------------------ state
VARIABLES
    mediaUrl,        \* useState('')      line 5
    metadata,        \* useState(null)    line 6
    loading,         \* useState(false)   line 7
    downloading,     \* useState(false)   line 8
    progress,        \* useState(0)       line 9
    error,           \* useState('')      line 10
    success,         \* useState('')      line 11
    solidarityName,  \* useState('')      line 12
    metaCalls,       \* fetchMetadata invocations suspended at `await fetch`
    dlCalls,         \* downloadMedia invocations suspended at an await
    metadataFrom,    \* request body of the call whose response metadata holds
    saved,           \* the file last offered through a.click(), or Null
    csv              \* the text last exported by downloadMetadataCSV, '' if none

vars == << mediaUrl, metadata, loading, downloading, progress, error, success,
           solidarityName, metaCalls, dlCalls, metadataFrom, saved, csv >>

Init ==
    /\ mediaUrl = <<>>
    /\ metadata = Null
    /\ loading = FALSE
    /\ downloading = FALSE
    /\ progress = 0
    /\ error = ""
    /\ success = ""
    /\ solidarityName = <<>>
    /\ metaCalls = <<>>
    /\ dlCalls = <<>>
    /\ metadataFrom = Null
    /\ saved = Null
    /\ csv = <<>>

\* ----------------------------------------------------------------- inputs
\* onChange of the campaign name input (line 277).
SetSolidarityName(v) ==
    /\ solidarityName' = v
    /\ UNCHANGED << mediaUrl, metadata, loading, downloading, progress, error,
                    success, metaCalls, dlCalls, metadataFrom, saved, csv >>

\* onChange of the media URL input (line 291).
SetMediaUrl(v) ==
    /\ mediaUrl' = v
    /\ UNCHANGED << solidarityName, metadata, loading, downloading, progress,
                    error, success, metaCalls, dlCalls, metadataFrom, saved, csv >>

\* ---------------------------------------------------------- fetchMetadata
\* The body of fetchMetadata up to its first await (lines 73-99).
FetchMetadata ==
    IF Trim(mediaUrl) = <<>>
    THEN /\ error' = "Please enter a valid media URL"
         /\ UNCHANGED << mediaUrl, solidarityName, metadata, loading, downloading,
                         progress, success, metaCalls, dlCalls, metadataFrom,
                         saved, csv >>
    ELSE IF Trim(solidarityName) = <<>>
    THEN /\ error' = "Please enter the solidarity campaign name"
         /\ UNCHANGED << mediaUrl, solidarityName, metadata, loading, downloading,
                         progress, success, metaCalls, dlCalls, metadataFrom,
                         saved, csv >>
    ELSE /\ Len(metaCalls) < MaxInFlight
         /\ loading' = TRUE
         /\ error' = ""
         /\ success' = ""
         /\ metadata' = Null
         /\ metadataFrom' = Null
         /\ metaCalls' = Append(metaCalls, [url |-> Trim(mediaUrl),
                                            solidarity |-> Trim(solidarityName)])
         /\ UNCHANGED << mediaUrl, solidarityName, downloading, progress,
                         dlCalls, saved, csv >>

\* The fetch button: onClick={fetchMetadata} disabled={loading} (298-300).
FetchClick ==
    /\ ~loading
    /\ FetchMetadata

\* Enter in the URL input: e.key === 'Enter' && fetchMetadata() (line 294).
FetchEnter == FetchMetadata

\* Call i resumes with a success response (lines 101-109, 113-115).
MetadataOk(i, data) ==
    /\ i \in DOMAIN metaCalls
    /\ metadata' = data
    /\ metadataFrom' = metaCalls[i]
    /\ success' = "Media information loaded successfully!"
    /\ loading' = FALSE
    /\ metaCalls' = RemoveAt(metaCalls, i)
    /\ UNCHANGED << mediaUrl, solidarityName, downloading, progress, error,
                    dlCalls, saved, csv >>

\* Call i resumes with a non-success response whose body carries `e`
\* (lines 101-105, 110-115).
MetadataRejected(i, e) ==
    /\ i \in DOMAIN metaCalls
    /\ error' = IF e # "" THEN e ELSE "Failed to fetch metadata"
    /\ loading' = FALSE
    /\ metaCalls' = RemoveAt(metaCalls, i)
    /\ UNCHANGED << mediaUrl, solidarityName, metadata, metadataFrom, downloading,
                    progress, success, dlCalls, saved, csv >>

\* fetch() of call i rejects (lines 92, 110-115).
MetadataNetworkFail(i) ==
    /\ i \in DOMAIN metaCalls
    /\ error' = NetworkErrorMessage
    /\ loading' = FALSE
    /\ metaCalls' = RemoveAt(metaCalls, i)
    /\ UNCHANGED << mediaUrl, solidarityName, metadata, metadataFrom, downloading,
                    progress, success, dlCalls, saved, csv >>

\* ---------------------------------------------------------- downloadMedia
\* x || d for strings
OrElse(x, d) == IF x = <<>> THEN d ELSE x

\* a.download (line 164), from the solidarityName and metadata the running
\* invocation closed over.
FileName(name, meta) ==
    name \o <<"_">>
         \o (IF meta = Null THEN <<"media">> ELSE OrElse(meta.title, <<"media">>))
         \o <<".">>
         \o (IF meta = Null THEN <<"mp4">> ELSE OrElse(meta.extension, <<"mp4">>))

\* The request body of POST /api/download (lines 129-133).
DownloadBody(quality) ==
    [url |-> Trim(mediaUrl), solidarity |-> Trim(solidarityName), quality |-> quality]

\* The body of downloadMedia up to its first await (lines 118-134).
DownloadMedia(quality) ==
    /\ Len(dlCalls) < MaxInFlight
    /\ downloading' = TRUE
    /\ error' = ""
    /\ progress' = 0
    /\ dlCalls' = Append(dlCalls,
          [pc |-> "fetch", body |-> DownloadBody(quality),
           name |-> solidarityName, meta |-> metadata,
           total |-> 0, loaded |-> 0, chunks |-> <<>>, wire |-> <<>>])
    /\ UNCHANGED << mediaUrl, solidarityName, metadata, metadataFrom, loading,
                    success, metaCalls, saved, csv >>

\* The download button: rendered under `metadata &&` (line 331),
\* onClick={() => downloadMedia('best')} disabled={downloading} (415-417).
DownloadClick ==
    /\ metadata # Null
    /\ ~downloading
    /\ DownloadMedia("best")

\* catch and finally of downloadMedia (lines 173-178), call i ending.
DownloadCatch(i, message) ==
    /\ error' = message
    /\ downloading' = FALSE
    /\ dlCalls' = RemoveAt(dlCalls, i)
    /\ UNCHANGED << mediaUrl, solidarityName, metadata, metadataFrom, loading,
                    progress, success, metaCalls, saved, csv >>

\* Call i resumes with a non-success response whose body carries `e`
\* (lines 136-139).
DownloadRejected(i, e) ==
    /\ i \in DOMAIN dlCalls
    /\ dlCalls[i].pc = "fetch"
    /\ DownloadCatch(i, IF e # "" THEN e ELSE "Download failed")

\* fetch() of call i rejects (line 126).
DownloadNetworkFail(i) ==
    /\ i \in DOMAIN dlCalls
    /\ dlCalls[i].pc = "fetch"
    /\ DownloadCatch(i, NetworkErrorMessage)

\* Call i resumes with a success response declaring content-length h
\* (lines 141-146) and suspends at the first reader.read().
DownloadResponse(i, h) ==
    /\ i \in DOMAIN dlCalls
    /\ dlCalls[i].pc = "fetch"
    /\ dlCalls' = [dlCalls EXCEPT ![i].pc = "read", ![i].total = ParseTotal(h)]
    /\ UNCHANGED << mediaUrl, solidarityName, metadata, metadataFrom, loading,
                    downloading, progress, error, success, metaCalls, saved, csv >>

\* reader.read() of call i delivers {done: false, value} (lines 149-157).
\* wire is what the transport has delivered so far, byte by byte.
ReadChunk(i, value) ==
    /\ i \in DOMAIN dlCalls
    /\ dlCalls[i].pc = "read"
    /\ LET c == dlCalls[i]
           loaded == c.loaded + Len(value)
       IN  /\ dlCalls' = [dlCalls EXCEPT ![i].chunks = PushChunk(c.chunks, value),
                                         ![i].loaded = loaded,
                                         ![i].wire = c.wire \o value]
           /\ progress' = IF c.total # 0 THEN ProgressOf(loaded, c.total)
                                         ELSE progress
    /\ UNCHANGED << mediaUrl, solidarityName, metadata, metadataFrom, loading,
                    downloading, error, success, metaCalls, saved, csv >>

\* reader.read() of call i delivers {done: true} (lines 150, 160-172, 176-178).
ReadDone(i) ==
    /\ i \in DOMAIN dlCalls
    /\ dlCalls[i].pc = "read"
    /\ saved' = [name |-> FileName(dlCalls[i].name, dlCalls[i].meta),
                 bytes |-> Blob(dlCalls[i].chunks)]
    /\ success' = "Media archived successfully for the movement!"
    /\ progress' = 100
    /\ downloading' = FALSE
    /\ dlCalls' = RemoveAt(dlCalls, i)
    /\ UNCHANGED << mediaUrl, solidarityName, metadata, metadataFrom, loading,
                    error, metaCalls, csv >>

\* reader.read() of call i rejects (lines 149, 173-178).
ReadError(i) ==
    /\ i \in DOMAIN dlCalls
    /\ dlCalls[i].pc = "read"
    /\ DownloadCatch(i, ReadErrorMessage)

\* ---------------------------------------------------- downloadMetadataCSV
\* s.replace(/"/g, '""')
RECURSIVE DoubleQuotes(_)
DoubleQuotes(s) ==
    IF s = <<>> THEN <<>>
    ELSE (IF Head(s) = DQ THEN <<DQ, DQ>> ELSE <<Head(s)>>) \o DoubleQuotes(Tail(s))

\* `${n}` for the numbers the model uses.
Digits == << "0", "1", "2", "3", "4", "5", "6", "7", "8", "9" >>
NumStr(n) == << Digits[n + 1] >>

\* new Date().toISOString(): digits, '-', ':', '.', 'T' and 'Z' only.
IsoNow == << "2026-01-01T00:00:00.000Z" >>

\* lines.join('\n')
RECURSIVE JoinLines(_)
JoinLines(lines) ==
    IF Len(lines) = 1 THEN lines[1]
    ELSE lines[1] \o <<NL>> \o JoinLines(Tail(lines))

\* The text built at lines 212-223.
ToCSV(name, m) ==
    JoinLines(<<
        <<"Field", COMMA, "Value">>,
        <<"Solidarity Campaign", COMMA, DQ>> \o name \o <<DQ>>,
        <<"Platform", COMMA>> \o OrElse(m.platform, <<"unknown">>),
        <<"Title", COMMA, DQ>> \o DoubleQuotes(OrElse(m.title, <<>>)) \o <<DQ>>,
        <<"Uploader", COMMA>> \o OrElse(m.uploader, <<"Unknown">>),
        <<"URL", COMMA>> \o m.url,
        <<"Views", COMMA>> \o NumStr(m.viewCount),
        <<"Likes", COMMA>> \o NumStr(m.likeCount),
        <<"Duration", COMMA>> \o NumStr(m.duration),
        <<"Archived At", COMMA>> \o IsoNow >>)

\* The CSV export button (lines 209-210, 212-225, 432-433).
DownloadMetadataCSV ==
    /\ metadata # Null
    /\ csv' = ToCSV(solidarityName, metadata)
    /\ UNCHANGED << mediaUrl, solidarityName, metadata, metadataFrom, loading,
                    downloading, progress, error, success, metaCalls, dlCalls,
                    saved >>

\* Chunks call i has read so far; 0 when there is no call i.
ChunksRead(i) == IF i \in DOMAIN dlCalls THEN Len(dlCalls[i].chunks) ELSE 0

\* ---------------------------------------------------------- specifications
\* Spec: the whole component.  Every control and every completion, with
\* the response body of a download held to at most one fixed chunk.
Next ==
    \/ \E v \in NameInputs : SetSolidarityName(v)
    \/ \E v \in UrlInputs : SetMediaUrl(v)
    \/ FetchClick
    \/ FetchEnter
    \/ \E i \in 1..MaxInFlight, d \in MetaResponses : MetadataOk(i, d)
    \/ \E i \in 1..MaxInFlight, e \in ServerErrors : MetadataRejected(i, e)
    \/ \E i \in 1..MaxInFlight : MetadataNetworkFail(i)
    \/ DownloadClick
    \/ \E i \in 1..MaxInFlight, e \in ServerErrors : DownloadRejected(i, e)
    \/ \E i \in 1..MaxInFlight : DownloadNetworkFail(i)
    \/ \E i \in 1..MaxInFlight, h \in UiContentLengths : DownloadResponse(i, h)
    \/ \E i \in 1..MaxInFlight, v \in UiChunkValues :
          ChunksRead(i) < 1 /\ ReadChunk(i, v)
    \/ \E i \in 1..MaxInFlight : ReadDone(i)
    \/ \E i \in 1..MaxInFlight : ReadError(i)

Spec == Init /\ [][Next]_vars

\* SpecDownload: downloadMedia alone, started from the state a successful
\* metadata fetch for (" u", "n ") leaves, over every declared length and
\* every split of the body into at most MaxChunks chunks.
FetchedMeta == CHOOSE m \in MetaResponses : m.title # <<>>

InitDownload ==
    /\ mediaUrl = <<SP, "u">>
    /\ solidarityName = <<"n", SP>>
    /\ metadata = FetchedMeta
    /\ metadataFrom = [url |-> <<"u">>, solidarity |-> <<"n">>]
    /\ loading = FALSE
    /\ downloading = FALSE
    /\ progress = 0
    /\ error = ""
    /\ success = "Media information loaded successfully!"
    /\ metaCalls = <<>>
    /\ dlCalls = <<>>
    /\ saved = Null
    /\ csv = <<>>

NextDownload ==
    \/ DownloadClick
    \/ \E i \in 1..MaxInFlight, e \in ServerErrors : DownloadRejected(i, e)
    \/ \E i \in 1..MaxInFlight : DownloadNetworkFail(i)
    \/ \E i \in 1..MaxInFlight, h \in ContentLengths : DownloadResponse(i, h)
    \/ \E i \in 1..MaxInFlight, v \in ChunkValues :
          ChunksRead(i) < MaxChunks /\ ReadChunk(i, v)
    \/ \E i \in 1..MaxInFlight : ReadDone(i)
    \/ \E i \in 1..MaxInFlight : ReadError(i)

SpecDownload == InitDownload /\ [][NextDownload]_vars

\* SpecCSV: the CSV export alone, over every campaign label and every
\* metadata record of CsvNames and CsvMetas.
CsvChars == { "a", DQ, COMMA }
CsvStrings == { <<>> } \cup { <<c>> : c \in CsvChars }
                       \cup { <<"a", c>> : c \in CsvChars }
CsvNames == CsvStrings
CsvMetas ==
    { [title |-> t, uploader |-> w, platform |-> <<"y">>, url |-> u,
       extension |-> <<>>, viewCount |-> 5, likeCount |-> 0, duration |-> 7] :
      t \in CsvStrings, w \in { <<>>, <<"a", COMMA>> },
      u \in { <<"u">>, <<"u", COMMA>> } }

InitCSV ==
    /\ mediaUrl = <<"u">>
    /\ solidarityName \in CsvNames
    /\ metadata \in CsvMetas
    /\ metadataFrom = [url |-> <<"u">>, solidarity |-> <<"n">>]
    /\ loading = FALSE
    /\ downloading = FALSE
    /\ progress = 0
    /\ error = ""
    /\ success = "Media information loaded successfully!"
    /\ metaCalls = <<>>
    /\ dlCalls = <<>>
    /\ saved = Null
    /\ csv = <<>>

NextCSV == DownloadMetadataCSV

SpecCSV == InitCSV /\ [][NextCSV]_vars

\* ------------------------------------------------------------- properties
Calls == 1..MaxInFlight

\* A step in which a fetchMetadata or downloadMedia call issues its request.
MetadataStarts == Len(metaCalls') > Len(metaCalls)
DownloadStarts == Len(dlCalls') > Len(dlCalls)

\* C1: every request outstanding, to /api/metadata or /api/download,
\* carries a non-empty trimmed url and a non-empty trimmed solidarity.
C1_NoRequestWithEmptyField ==
    /\ \A i \in DOMAIN metaCalls :
          metaCalls[i].url # <<>> /\ metaCalls[i].solidarity # <<>>
    /\ \A i \in DOMAIN dlCalls :
          dlCalls[i].body.url # <<>> /\ dlCalls[i].body.solidarity # <<>>

\* C2: there are never two metadata requests outstanding at once and never
\* two download requests outstanding at once.
C2_OneInFlightPerKind ==
    /\ Len(metaCalls) <= 1
    /\ Len(dlCalls) <= 1

\* C3: the step that offers a file is the step in which read() reports
\* done; the file's bytes are the bytes the transport delivered, in order,
\* as many as were counted, and progress then holds 100.
C3_ArtifactIsBody ==
    [][ /\ saved' # saved => \E i \in Calls : ReadDone(i)
        /\ \A i \in Calls : ReadDone(i) =>
              /\ saved'.bytes = dlCalls[i].wire
              /\ Len(saved'.bytes) = dlCalls[i].loaded
              /\ progress' = 100 ]_vars

\* A file assembled from two chunks of different content and length.
C3_Witness ==
    /\ saved # Null
    /\ saved.bytes = <<1, 0, 1>>
    /\ progress = 100
    /\ dlCalls = <<>>

\* C4: while a download whose response declared a total length runs, every
\* value progress takes is in 0..100 and no smaller than the one before.
C4_ProgressBoundedMonotone ==
    [][ \A i \in DOMAIN dlCalls : dlCalls[i].total # 0 =>
            /\ progress' \in 0..100
            /\ progress' >= progress ]_vars

\* C5: a download that ends with a non-success response or a failed read
\* offers no file, does not set the success message, does not leave
\* progress at 100, shows the server's error (or 'Download failed', or the
\* read error's message) and clears downloading.
C5_FailedDownloadNotSuccess ==
    [][ \A i \in Calls :
          /\ \A e \in ServerErrors : DownloadRejected(i, e) =>
                error' = (IF e = "" THEN "Download failed" ELSE e)
          /\ ReadError(i) => error' = ReadErrorMessage
          /\ ((\E e \in ServerErrors : DownloadRejected(i, e)) \/ ReadError(i)) =>
                /\ saved' = saved
                /\ success' = success
                /\ progress' # 100
                /\ ~downloading' ]_vars

\* C6: right after a metadata fetch or a download begins, error and
\* success are both empty.
C6_MessagesResetAtStart ==
    [][ (MetadataStarts \/ DownloadStarts) => (error' = "" /\ success' = "") ]_vars

\* C7: when a download ends in failure, progress holds 0.
C7_ProgressResetOnFailure ==
    [][ \A i \in Calls :
          ( \/ \E e \in ServerErrors : DownloadRejected(i, e)
            \/ DownloadNetworkFail(i)
            \/ ReadError(i) ) => progress' = 0 ]_vars

\* C8: a fetch that passes validation clears metadata when it starts; a
\* success response leaves exactly the response object in metadata; a
\* non-success response or a network failure leaves metadata null, and a
\* non-success response leaves the server's error (or 'Failed to fetch
\* metadata') in error; loading is cleared when the call ends.
C8_FetchLifecycle ==
    [][ /\ MetadataStarts => metadata' = Null
        /\ \A i \in Calls :
              /\ \A d \in MetaResponses : MetadataOk(i, d) =>
                    (metadata' = d /\ ~loading')
              /\ \A e \in ServerErrors : MetadataRejected(i, e) =>
                    error' = (IF e = "" THEN "Failed to fetch metadata" ELSE e)
              /\ ((\E e \in ServerErrors : MetadataRejected(i, e))
                      \/ MetadataNetworkFail(i)) =>
                    (metadata' = Null /\ ~loading') ]_vars

\* An RFC 4180 reader: rows of fields; a field that opens with a quote
\* runs to its closing quote, a doubled quote inside it is one quote.
RECURSIVE CsvScan(_, _, _, _, _, _)
CsvScan(t, i, inQuotes, field, row, rows) ==
    IF i > Len(t) THEN Append(rows, Append(row, field))
    ELSE IF inQuotes THEN
        IF t[i] # DQ THEN CsvScan(t, i + 1, TRUE, Append(field, t[i]), row, rows)
        ELSE IF i < Len(t) /\ t[i + 1] = DQ
             THEN CsvScan(t, i + 2, TRUE, Append(field, DQ), row, rows)
             ELSE CsvScan(t, i + 1, FALSE, field, row, rows)
    ELSE IF t[i] = DQ /\ field = <<>> THEN CsvScan(t, i + 1, TRUE, field, row, rows)
    ELSE IF t[i] = COMMA THEN CsvScan(t, i + 1, FALSE, <<>>, Append(row, field), rows)
    ELSE IF t[i] = NL THEN CsvScan(t, i + 1, FALSE, <<>>, <<>>,
                                   Append(rows, Append(row, field)))
    ELSE CsvScan(t, i + 1, FALSE, Append(field, t[i]), row, rows)

ParseCSV(t) == CsvScan(t, 1, FALSE, <<>>, <<>>, <<>>)

\* The header and the nine rows the export means to write.
CsvRows(name, m) ==
    << << <<"Field">>, <<"Value">> >>,
       << <<"Solidarity Campaign">>, name >>,
       << <<"Platform">>, OrElse(m.platform, <<"unknown">>) >>,
       << <<"Title">>, m.title >>,
       << <<"Uploader">>, OrElse(m.uploader, <<"Unknown">>) >>,
       << <<"URL">>, m.url >>,
       << <<"Views">>, NumStr(m.viewCount) >>,
       << <<"Likes">>, NumStr(m.likeCount) >>,
       << <<"Duration">>, NumStr(m.duration) >>,
       << <<"Archived At">>, IsoNow >> >>

\* C9: the exported text, read back as CSV, is the header and nine
\* two-column rows holding the field values that were exported.  (Under
\* SpecCSV the campaign name and the metadata never change, so the state
\* after the export still holds what was exported.)
C9_CsvRoundTrip ==
    csv # <<>> => ParseCSV(csv) = CsvRows(solidarityName, metadata)

\* C10: a download request carries the url and solidarity of the metadata
\* request whose response is the metadata then held.
C10_DownloadTargetsShownMedia ==
    [][ DownloadStarts =>
          /\ metadataFrom # Null
          /\ dlCalls'[Len(dlCalls')].body.url = metadataFrom.url
          /\ dlCalls'[Len(dlCalls')].body.solidarity = metadataFrom.solidarity ]_vars

====
